---- MODULE Spec2Model ----
(***************************************************************************)
(* gex: a terminal front-end over git status.                              *)
(* The model follows src/src/main.rs: Status::fetch (the parser of the     *)
(* status report), Status::expand, Status::len, the Display impls and the  *)
(* render / read / handle loop of main().                                  *)
(***************************************************************************)
EXTENDS Integers, Sequences, FiniteSets, TLC

-----------------------------------------------------------------------------
(* Bounds of the model *)

\* longest untracked / staged list the modelled git status reports
MaxUntracked == 2
MaxStaged == 2
\* longest staged and longest unstaged section of a Status value built in
\* place (SpecStatus); its untracked section is bounded by MaxUntracked
MaxSection == 3
MaxUnstaged == 1
\* width in bits of the modelled usize (the real one is 64 bits wide)
UsizeBits == 4

UsizeMod == 2 ^ UsizeBits
UsizeMax == UsizeMod - 1

-----------------------------------------------------------------------------
(* Strings: &str operations used by the parser *)

IsWhitespace(c) == c \in {" ", "\t"}

\* str::trim_start
RECURSIVE TrimStart(_)
TrimStart(s) ==
    IF Len(s) > 0 /\ IsWhitespace(SubSeq(s, 1, 1))
    THEN TrimStart(SubSeq(s, 2, Len(s)))
    ELSE s

\* str::starts_with
StartsWith(s, p) == Len(s) >= Len(p) /\ SubSeq(s, 1, Len(p)) = p

\* str::strip_prefix: Some(rest) or None
StripPrefix(s, p) ==
    IF StartsWith(s, p)
    THEN [some |-> TRUE, rest |-> SubSeq(s, Len(p) + 1, Len(s))]
    ELSE [some |-> FALSE, rest |-> ""]

\* nom tag(p)(s): Ok((remaining, matched)) or Err
Tag(p, s) ==
    IF StartsWith(s, p)
    THEN [ok |-> TRUE, remaining |-> SubSeq(s, Len(p) + 1, Len(s)), matched |-> p]
    ELSE [ok |-> FALSE, remaining |-> "", matched |-> ""]

-----------------------------------------------------------------------------
(* Status and Item *)

\* Item::new
ItemNew(path) == [path |-> path, expanded |-> FALSE]

\* Status::default()
DefaultStatus ==
    [branch |-> "", untracked |-> <<>>, unstaged |-> <<>>, staged |-> <<>>,
     cursor |-> 0]

\* Status::len
StatusLen(s) == Len(s.untracked) + Len(s.unstaged) + Len(s.staged)

-----------------------------------------------------------------------------
(* Status::fetch: the parser of the lines of the status report *)

ParsePanic(msg) == [panic |-> TRUE, msg |-> msg, status |-> DefaultStatus]

ParseDone(branch, untracked, staged) ==
    [panic |-> FALSE, msg |-> "",
     status |-> [branch |-> branch, untracked |-> untracked, unstaged |-> <<>>,
                 staged |-> staged, cursor |-> 0]]

\* StagedPath without the trim_start after the label
StagedPath_NoTrim(line) ==
    LET t == TrimStart(line)
        m == StripPrefix(t, "modified:")
        n == StripPrefix(t, "new file:")
    IN  IF m.some THEN [some |-> TRUE, rest |-> m.rest]
        ELSE IF n.some THEN [some |-> TRUE, rest |-> n.rest]
        ELSE [some |-> FALSE, rest |-> ""]

\* StagedPath that takes a line with neither label as the path itself
StagedPath_AnyLabel(line) ==
    LET t == TrimStart(line)
        m == StripPrefix(t, "modified:")
        n == StripPrefix(t, "new file:")
    IN  IF m.some THEN [some |-> TRUE, rest |-> TrimStart(m.rest)]
        ELSE IF n.some THEN [some |-> TRUE, rest |-> TrimStart(n.rest)]
        ELSE [some |-> TRUE, rest |-> t]

\* the path of a staged entry line: Some(path), or None when the unwrap panics
StagedPath(line) ==
    LET t == TrimStart(line)
        m == StripPrefix(t, "modified:")
        n == StripPrefix(t, "new file:")
    IN  IF m.some THEN [some |-> TRUE, rest |-> TrimStart(m.rest)]
        ELSE IF n.some THEN [some |-> TRUE, rest |-> TrimStart(n.rest)]
        ELSE [some |-> FALSE, rest |-> ""]

RECURSIVE ScanLines(_, _, _, _, _)
RECURSIVE ScanUntracked(_, _, _, _, _)
RECURSIVE ScanStaged(_, _, _, _, _)

\* ScanLines with the block of changes not staged read as a block of entries
ScanLines_ReadsNotStaged(lines, i, branch, untracked, staged) ==
    IF i > Len(lines) THEN ParseDone(branch, untracked, staged)
    ELSE IF lines[i] \in {"Untracked files:", "Changes not staged for commit:"}
    THEN IF i + 1 > Len(lines)
         THEN ParsePanic("unwrap on None")
         ELSE ScanUntracked(lines, i + 2, branch, untracked, staged)
    ELSE IF lines[i] = "Changes to be committed:"
    THEN IF i + 1 > Len(lines)
         THEN ParsePanic("unwrap on None")
         ELSE ScanStaged(lines, i + 2, branch, untracked, staged)
    ELSE ScanLines(lines, i + 1, branch, untracked, staged)

\* the outer while-let over lines.next(); i is the next line to read
ScanLines(lines, i, branch, untracked, staged) ==
    IF i > Len(lines) THEN ParseDone(branch, untracked, staged)
    ELSE IF lines[i] = "Untracked files:"
    THEN IF i + 1 > Len(lines)
         THEN ParsePanic("unwrap on None")
         ELSE ScanUntracked(lines, i + 2, branch, untracked, staged)
    ELSE IF lines[i] = "Changes to be committed:"
    THEN IF i + 1 > Len(lines)
         THEN ParsePanic("unwrap on None")
         ELSE ScanStaged(lines, i + 2, branch, untracked, staged)
    ELSE ScanLines(lines, i + 1, branch, untracked, staged)

\* the loop labelled untrackeds
ScanUntracked(lines, i, branch, untracked, staged) ==
    IF i > Len(lines) THEN ScanLines(lines, i, branch, untracked, staged)
    ELSE IF lines[i] = "" THEN ScanLines(lines, i + 1, branch, untracked, staged)
    ELSE ScanUntracked(lines, i + 1, branch,
                       Append(untracked, ItemNew(TrimStart(lines[i]))), staged)

\* the loop labelled staged
ScanStaged(lines, i, branch, untracked, staged) ==
    IF i > Len(lines) THEN ScanLines(lines, i, branch, untracked, staged)
    ELSE IF lines[i] = "" THEN ScanLines(lines, i + 1, branch, untracked, staged)
    ELSE LET p == StagedPath(lines[i])
         IN  IF ~p.some
             THEN ParsePanic("unwrap on None")
             ELSE ScanStaged(lines, i + 1, branch, untracked,
                             Append(staged, ItemNew(p.rest)))

\* the parse of the lines of stdout, from the branch line on
ParseLines(lines) ==
    IF Len(lines) = 0 THEN ParsePanic("not a valid git status output")
    ELSE LET branch == Tag("On branch ", lines[1])
         IN  IF ~branch.ok
             THEN ParsePanic("unwrap on Err")
             ELSE ScanLines(lines, 2, branch.remaining, <<>>, <<>>)

\* Status::fetch on one outcome of running git status
Fetch(out) ==
    IF out.kind = "spawn_failed" THEN ParsePanic("failed to execute git status")
    ELSE IF out.kind = "not_utf8"
    THEN ParsePanic("unwrap on Err")
    ELSE ParseLines(out.lines)

-----------------------------------------------------------------------------
(* The environment: what running git status can give *)

BranchNames == {"main", "dev"}

\* the i-th untracked path / staged entry the tool lists (in the tool's order)
UntrackedPool == <<"b.txt", "a b.txt">>
StagedPool == <<[label |-> "modified:", path |-> "src/main.rs"],
                [label |-> "new file:", path |-> "Cargo.lock"]>>

UntrackedAt(i) == UntrackedPool[((i - 1) % Len(UntrackedPool)) + 1]
StagedAt(i) == StagedPool[((i - 1) % Len(StagedPool)) + 1]

\* a working tree as the tool sees it
Trees ==
    {[branch |-> b,
      untracked |-> [i \in 1..u |-> UntrackedAt(i)],
      staged |-> [i \in 1..n |-> StagedAt(i)]] :
        b \in BranchNames, u \in 0..MaxUntracked, n \in 0..MaxStaged}

NoTree == [branch |-> "", untracked |-> <<>>, staged |-> <<>>]

UntrackedBlock(paths) ==
    IF paths = <<>> THEN <<>>
    ELSE <<"Untracked files:", "  (use ...)">>
         \o [i \in 1..Len(paths) |-> "\t" \o paths[i]]
         \o <<"">>

StagedBlock(entries) ==
    IF entries = <<>> THEN <<>>
    ELSE <<"Changes to be committed:", "  (use ...)">>
         \o [i \in 1..Len(entries) |->
                "\t" \o entries[i].label \o "   " \o entries[i].path]
         \o <<"">>

NotStagedBlock ==
    <<"Changes not staged for commit:", "  (use ...)", "  (use ...)",
      "\tmodified:   README.md", "">>

ButLast(seq) == SubSeq(seq, 1, Len(seq) - 1)

Shapes ==
    {"well_formed", "staged_first", "not_staged", "detached", "no_output",
     "cut_after_marker", "cut_in_section", "other_label"}

\* the lines of stdout for a tree, in one of the shapes
ReportLines(shape, t) ==
    LET head == <<"On branch " \o t.branch, "">>
        ub == UntrackedBlock(t.untracked)
        sb == StagedBlock(t.staged)
    IN  CASE shape = "well_formed" -> head \o ub \o sb
          [] shape = "staged_first" -> head \o sb \o ub
          [] shape = "not_staged" -> head \o sb \o NotStagedBlock \o ub
          [] shape = "detached" -> <<"HEAD detached at 1a2b3c", "">> \o ub \o sb
          [] shape = "no_output" -> <<>>
          [] shape = "cut_after_marker" -> head \o ub \o <<"Changes to be committed:">>
          [] shape = "cut_in_section" ->
                IF ub \o sb = <<>> THEN head ELSE head \o ButLast(ub \o sb)
          [] shape = "other_label" ->
                head \o ub \o <<"Changes to be committed:", "  (use ...)">>
                     \o [i \in 1..Len(t.staged) |->
                            "\t" \o t.staged[i].label \o "   " \o t.staged[i].path]
                     \o <<"\tdeleted:    old.rs", "">>

\* the trees reported in a shape: every tree in the well-formed shape, the
\* fullest trees of one branch in the others
ShapeTrees(sh) ==
    IF sh = "well_formed" THEN Trees
    ELSE {t \in Trees : /\ t.branch = "main"
                        /\ Len(t.untracked) = MaxUntracked
                        /\ Len(t.staged) \in {0, MaxStaged}}

\* the outcomes of Command::new("git").arg("status").output()
GitStatusOutcomes ==
    {[kind |-> "spawn_failed", shape |-> "none", tree |-> NoTree, lines |-> <<>>],
     [kind |-> "not_utf8", shape |-> "none", tree |-> NoTree, lines |-> <<>>]}
    \cup UNION {{[kind |-> "text", shape |-> sh, tree |-> t,
                   lines |-> ReportLines(sh, t)] : t \in ShapeTrees(sh)} :
                 sh \in Shapes}

NoOutcome == [kind |-> "none", shape |-> "none", tree |-> NoTree, lines |-> <<>>]

\* the outcomes of Command::new("git").args(["add", "."]).output()
GitAddOutcomes == {"ok", "failed", "spawn_failed"}

\* what fs::read_to_string gives for each path
Unreadable == [readable |-> FALSE, lines |-> <<>>]
FileOf(lines) == [readable |-> TRUE, lines |-> lines]

FileSystems ==
    {("b.txt" :> FileOf(<<>>)) @@ ("src/main.rs" :> FileOf(<<"fn main() {", "}">>)),
     ("b.txt" :> FileOf(<<"x">>)) @@ ("a b.txt" :> FileOf(<<"y", "z">>))
        @@ ("Cargo.lock" :> FileOf(<<>>))}

ReadToString(fs, path) == IF path \in DOMAIN fs THEN fs[path] ELSE Unreadable

-----------------------------------------------------------------------------
(* usize arithmetic: an overflow panics in a build with overflow checks   *)
(* (debug) and wraps in a build without them (release)                    *)

Builds == {"debug", "release"}

UsizeAdd(a, b, bld) ==
    IF a + b > UsizeMax
    THEN [panic |-> bld = "debug", val |-> (a + b) % UsizeMod]
    ELSE [panic |-> FALSE, val |-> a + b]

UsizeSub(a, b, bld) ==
    IF a - b < 0
    THEN [panic |-> bld = "debug", val |-> (a - b + UsizeMod) % UsizeMod]
    ELSE [panic |-> FALSE, val |-> a - b]

-----------------------------------------------------------------------------
(* The operations on Status *)

\* the j / Down arm: status.cursor += 1, then the clamp to len() - 1
MoveDown(s, bld) ==
    LET inc == UsizeAdd(s.cursor, 1, bld)
        s1 == [s EXCEPT !.cursor = inc.val]
        last == UsizeSub(StatusLen(s1), 1, bld)
    IN  IF inc.panic THEN [panic |-> TRUE, status |-> s]
        ELSE IF s1.cursor >= StatusLen(s1)
        THEN IF last.panic THEN [panic |-> TRUE, status |-> s1]
             ELSE [panic |-> FALSE, status |-> [s1 EXCEPT !.cursor = last.val]]
        ELSE [panic |-> FALSE, status |-> s1]

\* the k / Up arm as a wrapping subtraction
MoveUp_Wrapping(s) ==
    [s EXCEPT !.cursor = (s.cursor + UsizeMod - 1) % UsizeMod]

\* the k / Up arm: status.cursor.checked_sub(1).unwrap_or(0)
MoveUp(s) ==
    [s EXCEPT !.cursor = IF s.cursor >= 1 THEN s.cursor - 1 ELSE 0]

\* Toggle that flips every item of the section
Toggle_WholeSection(items, index) ==
    IF index >= Len(items) THEN [panic |-> TRUE, items |-> items]
    ELSE [panic |-> FALSE,
          items |-> [i \in 1..Len(items) |->
                       [items[i] EXCEPT !.expanded = ~items[i].expanded]]]

\* Toggle with the flag set instead of flipped
Toggle_SetTrue(items, index) ==
    IF index >= Len(items) THEN [panic |-> TRUE, items |-> items]
    ELSE [panic |-> FALSE, items |-> [items EXCEPT ![index + 1].expanded = TRUE]]

\* items[index].expanded = !items[index].expanded, index counted from 0;
\* the index out of range is a panic
Toggle(items, index) ==
    IF index >= Len(items) THEN [panic |-> TRUE, items |-> items]
    ELSE [panic |-> FALSE,
          items |-> [items EXCEPT ![index + 1].expanded = ~items[index + 1].expanded]]

\* Status::expand with > for >= in the first comparison
Expand_OffByOne(s) ==
    LET index0 == s.cursor
        index1 == index0 - Len(s.untracked)
        index2 == index1 - Len(s.unstaged)
    IN  IF s.cursor > Len(s.untracked)
        THEN IF index1 >= Len(s.unstaged)
             THEN LET t == Toggle(s.staged, index2)
                  IN  [panic |-> t.panic, status |-> [s EXCEPT !.staged = t.items]]
             ELSE LET t == Toggle(s.unstaged, index1)
                  IN  [panic |-> t.panic, status |-> [s EXCEPT !.unstaged = t.items]]
        ELSE LET t == Toggle(s.untracked, index0)
             IN  [panic |-> t.panic, status |-> [s EXCEPT !.untracked = t.items]]

\* Status::expand
Expand(s) ==
    LET index0 == s.cursor
        index1 == index0 - Len(s.untracked)
        index2 == index1 - Len(s.unstaged)
    IN  IF s.cursor >= Len(s.untracked)
        THEN IF index1 >= Len(s.unstaged)
             THEN LET t == Toggle(s.staged, index2)
                  IN  [panic |-> t.panic, status |-> [s EXCEPT !.staged = t.items]]
             ELSE LET t == Toggle(s.unstaged, index1)
                  IN  [panic |-> t.panic, status |-> [s EXCEPT !.unstaged = t.items]]
        ELSE LET t == Toggle(s.untracked, index0)
             IN  [panic |-> t.panic, status |-> [s EXCEPT !.untracked = t.items]]

-----------------------------------------------------------------------------
(* Display: the rows of one frame *)

Row(kind, glyph, text, reverse) ==
    [kind |-> kind, glyph |-> glyph, text |-> text, reverse |-> reverse]

\* the rows below an expanded entry whose file was read: the lines joined by
\* a newline and the marker, after one leading marker
PreviewRows(lines) ==
    IF lines = <<>> THEN <<Row("preview", "+ ", "", FALSE)>>
    ELSE [i \in 1..Len(lines) |-> Row("preview", "+ ", lines[i], FALSE)]

\* impl Display for Item, under the attribute the caller has set
ItemRows(item, reverse, fs) ==
    LET file == ReadToString(fs, item.path)
    IN  <<Row("entry", IF item.expanded THEN "v" ELSE ">", item.path, reverse)>>
        \o (IF item.expanded /\ file.readable THEN PreviewRows(file.lines) ELSE <<>>)

RECURSIVE SectionRows(_, _, _, _, _)

\* a section loop that compares the cursor with the index in the section
SectionRows_IgnoresOffset(items, i, offset, cursor, fs) ==
    IF i > Len(items) THEN <<>>
    ELSE ItemRows(items[i], cursor = i - 1, fs)
         \o SectionRows(items, i + 1, offset, cursor, fs)

\* one of the three for-loops over a section: the rows of items[i..]
SectionRows(items, i, offset, cursor, fs) ==
    IF i > Len(items) THEN <<>>
    ELSE ItemRows(items[i], cursor = (i - 1) + offset, fs)
         \o SectionRows(items, i + 1, offset, cursor, fs)

\* impl Display for Status
Display(s, fs) ==
    <<Row("branch", "", "On branch " \o s.branch, FALSE), Row("blank", "", "", FALSE)>>
    \o <<Row("header", "", "Untracked files:", FALSE)>>
    \o SectionRows(s.untracked, 1, 0, s.cursor, fs)
    \o <<Row("blank", "", "", FALSE), Row("header", "", "Changed files:", FALSE)>>
    \o SectionRows(s.unstaged, 1, Len(s.untracked), s.cursor, fs)
    \o <<Row("blank", "", "", FALSE), Row("header", "", "Staged for commit:", FALSE)>>
    \o SectionRows(s.staged, 1, Len(s.untracked) + Len(s.unstaged), s.cursor, fs)

-----------------------------------------------------------------------------
(* main(): the state of the process *)

VARIABLES
    pc,         \* where main() is: "fetch", "enter", "render", "read",
                \* or the process has ended: "exited", "panicked"
    build,      \* whether the build checks arithmetic overflow
    status,     \* the local `status`
    term,       \* the terminal: alternate screen, raw mode, hidden cursor
    exitCode,   \* the exit code of the ended process, -1 while it runs
    frame,      \* the rows printed for the read that is pending, else <<>>
    git,        \* the outcome of the last run of git status
    addResult,  \* the outcome of git add in this iteration, else "none"
    event       \* the event read in this iteration, else "none"

vars == <<pc, build, status, term, exitCode, frame, git, addResult, event>>

TermOriginal == [alt |-> FALSE, raw |-> FALSE, hidden |-> FALSE]

Init ==
    /\ pc = "fetch"
    /\ build \in Builds
    /\ status = DefaultStatus
    /\ term = TermOriginal
    /\ exitCode = -1
    /\ frame = <<>>
    /\ git = NoOutcome
    /\ addResult = "none"
    /\ event = "none"

\* a panic unwinds main() and ends the process; nothing restores the terminal
PanicNow ==
    /\ pc' = "panicked"
    /\ exitCode' = 101

\* let mut status = Status::fetch();
Start ==
    /\ pc = "fetch"
    /\ \E out \in GitStatusOutcomes :
         LET r == Fetch(out)
         IN  /\ git' = out
             /\ IF r.panic
                THEN PanicNow /\ UNCHANGED status
                ELSE pc' = "enter" /\ status' = r.status /\ UNCHANGED exitCode
    /\ UNCHANGED <<build, term, frame, addResult, event>>

\* EnterAlternateScreen, enable_raw_mode, cursor::Hide
EnterTerminal ==
    /\ pc = "enter"
    /\ \E res \in {"ok", "alt_failed", "raw_failed"} :
         CASE res = "ok" ->
                /\ term' = [alt |-> TRUE, raw |-> TRUE, hidden |-> TRUE]
                /\ pc' = "render"
                /\ UNCHANGED exitCode
           [] res = "alt_failed" ->
                /\ PanicNow
                /\ UNCHANGED term
           [] res = "raw_failed" ->
                /\ PanicNow
                /\ term' = [term EXCEPT !.alt = TRUE]
    /\ UNCHANGED <<build, status, frame, git, addResult, event>>

\* println!("{}{}{}{}", MoveToRow(0), Clear(All), status, MoveToColumn(0))
Render ==
    /\ pc = "render"
    /\ \E fs \in FileSystems : frame' = Display(status, fs)
    /\ pc' = "read"
    /\ addResult' = "none"
    /\ event' = "none"
    /\ UNCHANGED <<build, status, term, exitCode, git>>

\* event::read().unwrap() on an Err
ReadFailed ==
    /\ pc = "read"
    /\ event' = "read_error"
    /\ frame' = <<>>
    /\ PanicNow
    /\ UNCHANGED <<build, status, term, git, addResult>>

\* KeyCode::Char('j') | KeyCode::Down
KeyDown(k) ==
    /\ pc = "read"
    /\ event' = k
    /\ frame' = <<>>
    /\ LET r == MoveDown(status, build)
       IN  /\ status' = r.status
           /\ IF r.panic THEN PanicNow ELSE pc' = "render" /\ UNCHANGED exitCode
    /\ UNCHANGED <<build, term, git, addResult>>

\* the k / Up arm going back to the read without a render
KeyUp_SkipsRender(k) ==
    /\ pc = "read"
    /\ event' = k
    /\ status' = MoveUp(status)
    /\ pc' = "read"
    /\ UNCHANGED <<build, term, exitCode, git, addResult, frame>>

\* KeyCode::Char('k') | KeyCode::Up
KeyUp(k) ==
    /\ pc = "read"
    /\ event' = k
    /\ frame' = <<>>
    /\ status' = MoveUp(status)
    /\ pc' = "render"
    /\ UNCHANGED <<build, term, exitCode, git, addResult>>

\* the S arm with the cursor of the old snapshot kept in the new one
KeyStageAll_KeepCursor ==
    /\ pc = "read"
    /\ event' = "S"
    /\ frame' = <<>>
    /\ \E add \in GitAddOutcomes :
         /\ addResult' = add
         /\ IF add = "spawn_failed"
            THEN PanicNow /\ UNCHANGED <<status, git>>
            ELSE \E out \in GitStatusOutcomes :
                   LET r == Fetch(out)
                   IN  /\ git' = out
                       /\ IF r.panic
                          THEN PanicNow /\ UNCHANGED status
                          ELSE /\ status' = [r.status EXCEPT !.cursor = status.cursor]
                               /\ pc' = "render"
                               /\ UNCHANGED exitCode
    /\ UNCHANGED <<build, term>>

\* KeyCode::Char('S'): git add . and then status = Status::fetch()
KeyStageAll ==
    /\ pc = "read"
    /\ event' = "S"
    /\ frame' = <<>>
    /\ \E add \in GitAddOutcomes :
         /\ addResult' = add
         /\ IF add = "spawn_failed"
            THEN PanicNow /\ UNCHANGED <<status, git>>
            ELSE \E out \in GitStatusOutcomes :
                   LET r == Fetch(out)
                   IN  /\ git' = out
                       /\ IF r.panic
                          THEN PanicNow /\ UNCHANGED status
                          ELSE /\ status' = r.status
                               /\ pc' = "render"
                               /\ UNCHANGED exitCode
    /\ UNCHANGED <<build, term>>

\* KeyCode::Tab => status.expand()
KeyTab ==
    /\ pc = "read"
    /\ event' = "Tab"
    /\ frame' = <<>>
    /\ LET r == Expand(status)
       IN  /\ status' = r.status
           /\ IF r.panic THEN PanicNow ELSE pc' = "render" /\ UNCHANGED exitCode
    /\ UNCHANGED <<build, term, git, addResult>>

\* the q arm without LeaveAlternateScreen
KeyQuit_StaysOnAlternateScreen ==
    /\ pc = "read"
    /\ event' = "q"
    /\ frame' = <<>>
    /\ term' = [alt |-> TRUE, raw |-> FALSE, hidden |-> FALSE]
    /\ pc' = "exited"
    /\ exitCode' = 0
    /\ UNCHANGED <<build, status, git, addResult>>

\* KeyCode::Char('q'): disable_raw_mode, LeaveAlternateScreen, cursor::Show,
\* process::exit(0)
KeyQuit ==
    /\ pc = "read"
    /\ event' = "q"
    /\ frame' = <<>>
    /\ term' = [alt |-> FALSE, raw |-> FALSE, hidden |-> FALSE]
    /\ pc' = "exited"
    /\ exitCode' = 0
    /\ UNCHANGED <<build, status, git, addResult>>

\* the `_ => {}` arms: any other key, any event that is not a key
OtherEvents == {"x", "resize"}

\* the catch-all arms with the cursor sent back to the first entry
Ignore_ResetsCursor(e) ==
    /\ pc = "read"
    /\ event' = e
    /\ frame' = <<>>
    /\ pc' = "render"
    /\ status' = [status EXCEPT !.cursor = 0]
    /\ UNCHANGED <<build, term, exitCode, git, addResult>>

Ignore(e) ==
    /\ pc = "read"
    /\ event' = e
    /\ frame' = <<>>
    /\ pc' = "render"
    /\ UNCHANGED <<build, status, term, exitCode, git, addResult>>

Next ==
    \/ Start
    \/ EnterTerminal
    \/ Render
    \/ ReadFailed
    \/ \E k \in {"j", "Down"} : KeyDown(k)
    \/ \E k \in {"k", "Up"} : KeyUp(k)
    \/ KeyStageAll
    \/ KeyTab
    \/ KeyQuit
    \/ \E e \in OtherEvents : Ignore(e)

Spec == Init /\ [][Next]_vars

-----------------------------------------------------------------------------
(* The loop over a Status value built in place, as the literal in main()  *)
(* builds it: any three sections of collapsed items, cursor 0             *)

UnstagedAt(i) == "README.md"

BuiltStatuses ==
    {[branch |-> "main",
      untracked |-> [i \in 1..u |-> ItemNew(UntrackedAt(i))],
      unstaged |-> [i \in 1..m |-> ItemNew(UnstagedAt(i))],
      staged |-> [i \in 1..n |-> ItemNew(StagedAt(i).path)],
      cursor |-> 0] :
        u \in 0..MaxUntracked, m \in 0..MaxUnstaged, n \in 0..MaxSection}

InitStatus ==
    /\ pc = "render"
    /\ build \in Builds
    /\ status \in BuiltStatuses
    /\ term = [alt |-> TRUE, raw |-> TRUE, hidden |-> TRUE]
    /\ exitCode = -1
    /\ frame = <<>>
    /\ git = NoOutcome
    /\ addResult = "none"
    /\ event = "none"

NextStatus ==
    \/ Render
    \/ ReadFailed
    \/ \E k \in {"j", "Down"} : KeyDown(k)
    \/ \E k \in {"k", "Up"} : KeyUp(k)
    \/ KeyTab
    \/ KeyQuit
    \/ \E e \in OtherEvents : Ignore(e)

SpecStatus == InitStatus /\ [][NextStatus]_vars

-----------------------------------------------------------------------------
(* Properties *)

Total == StatusLen(status)
Live == pc \in {"render", "read"}
Min(a, b) == IF a < b THEN a ELSE b

\* untracked ++ unstaged ++ staged
Concat(s) == s.untracked \o s.unstaged \o s.staged

\* the transition handles the event e
Handles(e) == pc = "read" /\ event' = e

\* C1: while the loop runs, 0 <= cursor < total, and cursor = 0 when
\* total = 0, whatever keys were handled
C1_CursorInRange ==
    Live => IF Total = 0 THEN status.cursor = 0
            ELSE status.cursor \in 0..(Total - 1)

\* C2: j / Down sets cursor to min(cursor + 1, total - 1) when total > 0,
\* and changes nothing when total = 0; the loop goes on in both cases
C2_MoveDownClamps ==
    [][(Handles("j") \/ Handles("Down")) =>
        /\ pc' = "render"
        /\ IF Total = 0 THEN status' = status
           ELSE status' = [status EXCEPT !.cursor = Min(status.cursor + 1, Total - 1)]
      ]_vars

\* C3: Tab on an empty snapshot changes nothing and the loop goes on
C3_TabOnEmptyIsNoOp ==
    [][(Handles("Tab") /\ Total = 0) => (pc' = "render" /\ status' = status)]_vars

\* C4: with the cursor in range, Tab flips the expanded flag of the entry at
\* position cursor of untracked ++ unstaged ++ staged and of no other entry,
\* and the loop goes on
C4_ExpandTogglesAddressedEntry ==
    [][(Handles("Tab") /\ status.cursor < Total) =>
        /\ pc' = "render"
        /\ Len(status'.untracked) = Len(status.untracked)
        /\ Len(status'.unstaged) = Len(status.unstaged)
        /\ Len(status'.staged) = Len(status.staged)
        /\ \A i \in 1..Total :
             Concat(status')[i].expanded =
                IF i = status.cursor + 1 THEN ~Concat(status)[i].expanded
                ELSE Concat(status)[i].expanded
      ]_vars

\* C4 witness: sections of lengths 2, 0, 3, cursor 4: Tab has expanded staged[2]
C4_Witness ==
    /\ pc = "render" /\ event = "Tab"
    /\ Len(status.untracked) = 2 /\ Len(status.unstaged) = 0
    /\ Len(status.staged) = 3
    /\ status.cursor = 4
    /\ status.staged[3].expanded
    /\ \A i \in 1..Total : i # 5 => ~Concat(status)[i].expanded

\* C5: a Tab followed by a second Tab, with only the render in between,
\* gives back the snapshot the first Tab started from
C5_ToggleTwiceRestores ==
    [][/\ (Handles("Tab") /\ Total > 0 /\ status.cursor < Total) =>
            /\ pc' = "render"
            /\ ~Expand(status').panic
            /\ Expand(status').status = status
       /\ (pc = "render" => status' = status)
      ]_vars

\* C5 witness: a Tab has collapsed again the entry under the cursor, which
\* only an earlier Tab can have expanded
C5_Witness ==
    /\ pc = "render" /\ event = "Tab"
    /\ Total > 0 /\ status.cursor < Total
    /\ \A i \in 1..Total : ~Concat(status)[i].expanded

\* the snapshot that lists a tree: its branch, its untracked paths and its
\* staged paths in the order of the tree, cursor 0, every entry collapsed
SnapshotOf(t) ==
    [branch |-> t.branch,
     untracked |-> [i \in 1..Len(t.untracked) |->
                      [path |-> t.untracked[i], expanded |-> FALSE]],
     unstaged |-> <<>>,
     staged |-> [i \in 1..Len(t.staged) |->
                   [path |-> t.staged[i].path, expanded |-> FALSE]],
     cursor |-> 0]

\* the transition runs Status::fetch: at the start, or in the S arm once
\* git add has run
Fetches == pc = "fetch" \/ (Handles("S") /\ addResult' # "spawn_failed")

\* C6: when S has been handled and the loop goes on, the snapshot is the one
\* of the status report just fetched, with cursor 0 and every entry
\* collapsed, whatever the old snapshot was and whatever git add reported
C6_StageAllReplacesSnapshot ==
    [][(Handles("S") /\ pc' = "render") =>
        /\ status' = SnapshotOf(git'.tree)
        /\ status'.cursor = 0
        /\ \A i \in 1..StatusLen(status') : ~Concat(status')[i].expanded
      ]_vars

\* C6 witness: S was handled, git add reported a failure, and the loop goes
\* on with a snapshot of two entries
C6_Witness ==
    /\ pc = "render" /\ event = "S" /\ addResult = "failed"
    /\ Total = 2
    /\ status = SnapshotOf(git.tree)

\* C7: the fetch of a well-formed report gives the branch, the untracked
\* paths and the staged paths of the report, in its order, with cursor 0
\* and every entry collapsed
C7_ParserRecoversReport ==
    [][(Fetches /\ git'.kind = "text" /\ git'.shape \in {"well_formed", "staged_first"}) =>
        /\ pc' \in {"enter", "render"}
        /\ status'.branch = git'.tree.branch
        /\ status'.untracked = [i \in 1..Len(git'.tree.untracked) |->
                                  [path |-> git'.tree.untracked[i], expanded |-> FALSE]]
        /\ status'.unstaged = <<>>
        /\ status'.staged = [i \in 1..Len(git'.tree.staged) |->
                               [path |-> git'.tree.staged[i].path, expanded |-> FALSE]]
        /\ status'.cursor = 0
      ]_vars

\* C7 witness: the first fetch has parsed a report with a modified: and a
\* new file: entry into staged = src/main.rs, Cargo.lock
C7_Witness ==
    /\ pc = "enter"
    /\ git.shape = "well_formed"
    /\ status.branch = "dev"
    /\ Len(status.untracked) = 2
    /\ status.staged = <<ItemNew("src/main.rs"), ItemNew("Cargo.lock")>>

\* C8: a report whose first line does not start with "On branch " does not
\* end the process
C8_MissingBranchIsAnErrorValue ==
    [][(/\ Fetches
        /\ git'.kind = "text"
        /\ Len(git'.lines) > 0
        /\ ~StartsWith(git'.lines[1], "On branch ")) => pc' # "panicked"]_vars

\* C9: once the process has ended after an event was read, raw mode is
\* disabled and the alternate screen is left
C9_TerminalRestoredOnEveryExit ==
    (pc \in {"exited", "panicked"} /\ event # "none") => (~term.raw /\ ~term.alt)

\* the S arm has failed: git add or git status could not run or reported a
\* failure, or the report does not parse
StageAllFailed ==
    \/ addResult' \in {"failed", "spawn_failed"}
    \/ git'.kind \in {"spawn_failed", "not_utf8"}
    \/ Fetch(git').panic

\* C10: a failure of the S arm does not end the process and leaves the
\* snapshot as it was
C10_StageAllFailureIsRecoverable ==
    [][(Handles("S") /\ StageAllFailed) =>
        (pc' = "render" /\ status' = status /\ exitCode' = exitCode)]_vars

Max(a, b) == IF a > b THEN a ELSE b

\* C12: k / Up sets cursor to max(cursor - 1, 0) and nothing else ends the
\* step: the cursor at 0 stays at 0, the loop goes on
C12_MoveUpSaturates ==
    [][(Handles("k") \/ Handles("Up")) =>
        /\ pc' = "render"
        /\ status'.cursor = Max(status.cursor - 1, 0)
        /\ status'.cursor \in 0..UsizeMax
        /\ (status.cursor = 0 => status'.cursor = 0)
      ]_vars

\* C12 witness: k has moved the cursor from 2 to 1 in a snapshot of three
\* or more entries
C12_Witness ==
    /\ pc = "render" /\ event = "k"
    /\ Total >= 3
    /\ status.cursor = 1

\* C12 second case: k was handled on the empty snapshot
C12_WitnessEmpty ==
    /\ pc = "render" /\ event = "k"
    /\ Total = 0
    /\ status.cursor = 0

\* the paths of a section
PathsOf(items) == [i \in 1..Len(items) |-> items[i].path]

\* C13: the unstaged section is empty in every state, and a snapshot parsed
\* from a report with a block of changes not staged holds the untracked and
\* the staged paths of the report and nothing of that block
C13_UnstagedStaysEmpty ==
    /\ status.unstaged = <<>>
    /\ (Live /\ git.kind = "text" /\ git.shape = "not_staged") =>
          /\ PathsOf(status.untracked) = git.tree.untracked
          /\ PathsOf(status.staged) =
                [i \in 1..Len(git.tree.staged) |-> git.tree.staged[i].path]

\* C13 witness: the loop runs on the snapshot of a report with a block of
\* changes not staged, after keys were handled
C13_Witness ==
    /\ pc = "render" /\ event = "Tab"
    /\ git.shape = "not_staged"
    /\ Len(status.untracked) = 2 /\ Len(status.staged) = 2
    /\ status.cursor = 3

\* C14: the fetch of a report that ends right after a section marker, or
\* inside a section before its blank line, fails: it returns no snapshot
C14_TruncatedReportFails ==
    [][(/\ Fetches
        /\ git'.kind = "text"
        /\ git'.shape \in {"cut_after_marker", "cut_in_section"})
       => pc' \notin {"enter", "render"}]_vars

\* the events with an arm of their own
BoundEvents == {"j", "Down", "k", "Up", "Tab", "S", "q"}

\* C15: an event that is read and is none of j, Down, k, Up, Tab, S, q
\* leaves the snapshot and the terminal as they are, and the loop goes on
\* to the next render
C15_OtherEventsAreNoOps ==
    [][(pc = "read" /\ event' \notin BoundEvents /\ event' # "read_error") =>
        /\ status' = status
        /\ term' = term
        /\ exitCode' = exitCode
        /\ pc' = "render"
      ]_vars

\* C15 witness: an event that is not a key was ignored with the cursor off
\* the first entry and an entry expanded
C15_Witness ==
    /\ pc = "render" /\ event = "resize"
    /\ status.cursor = 1 /\ Total >= 2
    /\ Concat(status)[1].expanded
    /\ term.raw /\ term.alt

IsEntryOrPreview(row) == row.kind \in {"entry", "preview"}

\* the rows of a frame that belong to entries: kind, marker and text
EntryPart(rows) ==
    LET sel == SelectSeq(rows, IsEntryOrPreview)
    IN  [i \in 1..Len(sel) |->
            [kind |-> sel[i].kind,
             marker |-> IF sel[i].kind = "preview" THEN sel[i].glyph ELSE "",
             text |-> sel[i].text]]

\* what the entries are to show: per entry its own row and, when it is
\* expanded and its file can be read, one row per line of the file
RECURSIVE ExpectedEntryPart(_, _, _)
ExpectedEntryPart(items, i, fs) ==
    IF i > Len(items) THEN <<>>
    ELSE LET file == ReadToString(fs, items[i].path)
             own == <<[kind |-> "entry", marker |-> "", text |-> items[i].path]>>
             preview == IF items[i].expanded /\ file.readable
                        THEN [k \in 1..Len(file.lines) |->
                                [kind |-> "preview", marker |-> "+ ",
                                 text |-> file.lines[k]]]
                        ELSE <<>>
         IN  own \o preview \o ExpectedEntryPart(items, i + 1, fs)

\* C16: the frame shown at a read has, below the row of each entry, exactly
\* one "+ " row per line of its file when the entry is expanded and the file
\* can be read (none for a file of no lines), and no row when the entry is
\* collapsed or the file cannot be read
C16_PreviewRowsAreTheFileLines ==
    pc = "read" =>
        \E fs \in FileSystems :
            EntryPart(frame) = ExpectedEntryPart(Concat(status), 1, fs)

IsHeaderOrEntry(row) == row.kind \in {"header", "entry"}

\* the header and entry rows of a frame: kind, glyph and text
Outline(rows) ==
    LET sel == SelectSeq(rows, IsHeaderOrEntry)
    IN  [i \in 1..Len(sel) |->
            [kind |-> sel[i].kind, glyph |-> sel[i].glyph, text |-> sel[i].text]]

\* the rows that are to stand for a section: its header, then its entries
SectionOutline(title, items) ==
    <<[kind |-> "header", glyph |-> "", text |-> title]>>
    \o [i \in 1..Len(items) |->
          [kind |-> "entry",
           glyph |-> IF items[i].expanded THEN "v" ELSE ">",
           text |-> items[i].path]]

IsEntry(row) == row.kind = "entry"

\* the positions, in untracked ++ unstaged ++ staged, of the entry rows of a
\* frame that are in inverse video
Highlighted(rows) ==
    LET entries == SelectSeq(rows, IsEntry)
    IN  {i \in 1..Len(entries) : entries[i].reverse}

\* the positions whose expanded flag Status::expand flips
Flipped(s) ==
    {i \in 1..StatusLen(s) :
        Concat(Expand(s).status)[i].expanded # Concat(s)[i].expanded}

\* C17: the frame shown at a read lists the sections untracked, changed,
\* staged in this order with one row per entry in the order of the section;
\* with the cursor in range exactly one row is in inverse video, an entry
\* row, and it is the entry Tab would flip; with no entry no row is
C17_HighlightIsTheExpandTarget ==
    pc = "read" =>
        /\ Outline(frame) =
              SectionOutline("Untracked files:", status.untracked)
              \o SectionOutline("Changed files:", status.unstaged)
              \o SectionOutline("Staged for commit:", status.staged)
        /\ \A i \in 1..Len(frame) : frame[i].reverse => frame[i].kind = "entry"
        /\ (status.cursor < Total) =>
              /\ Highlighted(frame) = {status.cursor + 1}
              /\ Flipped(status) = Highlighted(frame)
        /\ (Total = 0) => Highlighted(frame) = {}

\* C17 witness: a frame of sections of 2, 1 and 3 entries with the cursor on
\* the unstaged entry, which is the row in inverse video
C17_Witness ==
    /\ pc = "read"
    /\ Len(status.untracked) = 2 /\ Len(status.unstaged) = 1
    /\ Len(status.staged) = 3
    /\ status.cursor = 2
    /\ \E i \in 1..Len(frame) :
          /\ frame[i].reverse
          /\ frame[i].text = "README.md"
          /\ frame[i - 1].text = "Changed files:"

\* C17 second case: a frame of the empty snapshot, no row in inverse video
C17_WitnessEmpty ==
    /\ pc = "read"
    /\ Total = 0
    /\ Len(frame) = 7
    /\ \A i \in 1..Len(frame) : ~frame[i].reverse

\* C18: a render is followed by a read and changes no snapshot; a read
\* consumes one event, and the step that handles it leads to the next
\* render or ends the process; so at every read the frame on the screen is
\* the rendering of the snapshot the event will act on
C18_RenderThenReadAlternate ==
    [][/\ (pc = "render" => pc' = "read" /\ status' = status)
       /\ (pc = "read" =>
              /\ event = "none" /\ event' # "none"
              /\ pc' \in {"render", "exited", "panicked"})
       /\ (pc' = "read" =>
              \E fs \in FileSystems : frame' = Display(status', fs))
      ]_vars

\* C18 witness: a read is pending on a frame that shows the cursor on the
\* second entry and the first entry expanded, as the snapshot has them
C18_Witness ==
    /\ pc = "read"
    /\ Total >= 2
    /\ status.cursor = 1
    /\ Concat(status)[1].expanded
    /\ Highlighted(frame) = {2}
    /\ SelectSeq(frame, IsEntry)[1].glyph = "v"

\* C19: the fetch of a report whose staged block has a line with neither
\* label fails and returns no snapshot, so no entry comes from that line;
\* the fetch of a report whose staged lines all carry modified: or
\* new file: gives, per line, the path after the label and the whitespace
C19_StagedLabels ==
    [][/\ (Fetches /\ git'.kind = "text" /\ git'.shape = "other_label") =>
            /\ pc' = "panicked"
            /\ status' = status
       /\ (Fetches /\ git'.kind = "text"
             /\ git'.shape \in {"well_formed", "staged_first", "not_staged"}) =>
            /\ pc' # "panicked"
            /\ status'.staged =
                 [i \in 1..Len(git'.tree.staged) |->
                    [path |-> git'.tree.staged[i].path, expanded |-> FALSE]]
      ]_vars

\* C19 witness: S was handled on a snapshot with staged entries, the new
\* report has a deleted: line after two labelled lines, and the process
\* has ended with the old snapshot
C19_Witness ==
    /\ pc = "panicked" /\ event = "S"
    /\ git.shape = "other_label"
    /\ Len(git.tree.staged) = 2
    /\ Len(status.staged) = 1

\* branch and the paths of the three sections, in order
Contents(s) ==
    <<s.branch, PathsOf(s.untracked), PathsOf(s.unstaged), PathsOf(s.staged)>>

\* C20: j, Down, k and Up change at most the cursor; Tab changes at most
\* the expanded flag of the entry under the cursor; branch and the paths of
\* the sections change only in a fetch
C20_MovesAndToggleChangeNothingElse ==
    [][/\ (Handles("j") \/ Handles("Down") \/ Handles("k") \/ Handles("Up")) =>
            status' = [status EXCEPT !.cursor = status'.cursor]
       /\ Handles("Tab") =>
            /\ status'.cursor = status.cursor
            /\ Contents(status') = Contents(status)
            /\ \A i \in 1..Total :
                 i # status.cursor + 1 =>
                    Concat(status')[i].expanded = Concat(status)[i].expanded
       /\ (Contents(status') # Contents(status)) =>
            (pc = "fetch" \/ Handles("S"))
      ]_vars

\* C20 witness: Tab has expanded the second of three or more entries and
\* the others are collapsed as before
C20_Witness ==
    /\ pc = "render" /\ event = "Tab"
    /\ Total >= 3
    /\ status.cursor = 1
    /\ Concat(status)[2].expanded
    /\ ~Concat(status)[1].expanded /\ ~Concat(status)[3].expanded
    /\ Contents(status) = Contents(SnapshotOf(git.tree))

====
